---- MODULE Spec2Model ----
(***************************************************************************)
(* Feedback intake pipeline, pending-entry moderation and notification     *)
(* dispatch of the HealthCare FeedBack Portal backend.                     *)
(*                                                                         *)
(* Every service method is a handler that runs from one `await` to the     *)
(* next; each database call or e-mail send is one atomic step, and the     *)
(* steps of different handlers interleave.  reqs[i] holds the locals and   *)
(* the position of the i-th request until its controller has sent the      *)
(* response; what the handler logged stays in reqs[i] afterwards.          *)
(***************************************************************************)
EXTENDS Integers, Sequences, FiniteSets, TLC

\* number of requests issued in a behaviour
MaxReq == 2
\* number of those that may be submissions
MaxCreate == 2
\* number of handlers that may be in flight at the same time
MaxConcurrent == 2
MaxOps == 3
MaxBroadcast == 1
MaxSwitches == 2

Null == "null"
\* an absent optional value is the empty sequence, a present one a singleton
Undefined == <<>>

VARIABLES
  feedbackSubmission,   \* Feedback Store: sequence of rows, id = index
  pendingEntry,         \* Pending-Entry Store: sequence of rows, id = index
  healthFacility,       \* Directory: sequence of rows
  surveyResponse,       \* Survey responses: sequence of rows
  reqs,                 \* the requests: kind, position, locals, outcome
  overlapped,           \* kinds of handler of which two have been in flight together
  admin,                \* operator accounts: id -> row
  ops,                  \* the operator-account requests: kind, position, locals, outcome
  issued,               \* ids of the operators for whom tokens have been signed
  mint                  \* generateReferenceId: the clock, the random number, the result

vars == <<feedbackSubmission, pendingEntry, healthFacility, surveyResponse, reqs,
          overlapped, mint, admin, ops, issued>>

(***************************************************************************)
(* Strings.  toLowerCase() and Prisma's `mode: "insensitive"`.             *)
(***************************************************************************)
LowerTable ==
  ("Hope Clinic" :> "hope clinic") @@ ("HOPE CLINIC" :> "hope clinic") @@
  ("General Hospital" :> "general hospital") @@
  ("Lagos" :> "lagos") @@ ("LAGOS" :> "lagos") @@
  ("Ikeja" :> "ikeja") @@ ("IKEJA" :> "ikeja") @@
  ("Emergency" :> "emergency") @@ ("Triage" :> "triage") @@
  ("Helipad" :> "helipad") @@ ("Billing" :> "billing") @@
  ("Other" :> "other") @@ ("Private" :> "private") @@
  ("Reception" :> "reception") @@ ("Admin1@x.org" :> "admin1@x.org")

ToLowerCase(s) == IF s \in DOMAIN LowerTable THEN LowerTable[s] ELSE s

\* { equals: b, mode: "insensitive" } applied to column value a
EqualsInsensitive(a, b) == a # Null /\ b # Null /\ ToLowerCase(a) = ToLowerCase(b)

\* JavaScript truthiness of a `string | null` value
Truthy(s) == s # Null /\ s # ""

\* e.state?.toLowerCase() || ''
LowerOrEmpty(s) == IF Truthy(s) THEN ToLowerCase(s) ELSE ""

(***************************************************************************)
(* Submission payloads (CreateFeedbackDto), restricted to the fields the   *)
(* pipeline reads.                                                         *)
(***************************************************************************)
Payload(anon, email, ftype, fname, fstate, flga, dept, loc, ic, icOther) ==
  [anonymous |-> anon, reporter_email |-> email, facility_type |-> ftype,
   facility_name |-> fname, facility_state |-> fstate, facility_lga |-> flga,
   department |-> dept, location |-> loc,
   issue_classification |-> ic, issue_classification_other |-> icOther]

Payloads ==
  { Payload(FALSE, "a@x.org", "Private", "Hope Clinic", "Lagos", "Ikeja",
            Null, Null, Null, Null),
    Payload(TRUE, Null, Null, "HOPE CLINIC", "LAGOS", "IKEJA",
            "Triage", Null, Null, Null),
    Payload(TRUE, "b@x.org", Null, "General Hospital", "Lagos", "Ikeja",
            "Emergency", "Helipad", Null, Null),
    Payload(FALSE, Null, Null, "Hope Clinic", "Lagos", Null,
            Null, "reception", "Other", "Billing") }

predefinedDepartments ==
  { "Emergency", "Outpatient", "Inpatient", "Surgery", "Maternity", "Paediatrics",
    "Radiology", "Laboratory", "Pharmacy", "Administration", "Mental Health",
    "Rehabilitation", "ICU", "Orthopaedics", "Cardiology", "Oncology", "Dental",
    "ENT", "Ophthalmology", "Gynaecology", "Anaesthesiology", "General Ward", "Other" }

predefinedLocations ==
  { "Reception", "Waiting Area", "Consultation Room", "Ward", "Operating Theatre",
    "Pharmacy", "Laboratory", "Radiology", "Emergency Room", "Corridor",
    "Cafeteria", "Car Park", "Restroom", "Nurses Station", "Doctor's Office", "Other" }

\* operators that may resolve pending entries (req.user.id)
Admins == { "admin1" }

\* the accounts of the admin table, and the table with the accounts of the
\* set active switched on
Operators == { "admin1", "admin2" }

EmailOf == ("admin1" :> "admin1@x.org") @@ ("admin2" :> "admin2@x.org")

SeededAdmins(active) ==
  [a \in Operators |->
     [id |-> a, email |-> EmailOf[a], is_active |-> a \in active, password_hash |-> "hash"]]

\* prisma.admin.findMany({ where: { is_active: true } })
ActiveAdmins == { a \in DOMAIN admin : admin[a].is_active }

(***************************************************************************)
(* Column defaults of the database schema.                                 *)
(***************************************************************************)
FeedbackDefaults ==
  [status |-> "new", confirmation_email_sent |-> FALSE, followup_email_sent |-> FALSE]

PendingEntryDefaults ==
  [status |-> "pending", approved_at |-> 0, approved_by |-> Null]

(***************************************************************************)
(* Queries                                                                 *)
(***************************************************************************)
\* as FacilityExists, but the lga column is compared with the state
FacilityExistsWrongColumn(dir, name, state, lga) ==
  \E k \in DOMAIN dir :
     /\ EqualsInsensitive(dir[k].facility_name, name)
     /\ EqualsInsensitive(dir[k].state, state)
     /\ EqualsInsensitive(dir[k].lga, state)

\* prisma.healthFacility.findFirst({ where: name/state/lga insensitive })
FacilityExists(dir, name, state, lga) ==
  \E k \in DOMAIN dir :
     /\ EqualsInsensitive(dir[k].facility_name, name)
     /\ EqualsInsensitive(dir[k].state, state)
     /\ EqualsInsensitive(dir[k].lga, lga)

\* as EntryKey, but the value is not lower-cased
EntryKeyCaseSensitive(e) ==
  <<e.entry_type, e.value, LowerOrEmpty(e.state), LowerOrEmpty(e.lga)>>

\* the dedup key built for existing rows and for candidates
EntryKey(e) ==
  <<e.entry_type, ToLowerCase(e.value), LowerOrEmpty(e.state), LowerOrEmpty(e.lga)>>

\* one disjunct of the OR of prisma.pendingEntry.findMany
MatchesCandidate(row, entry) ==
  /\ row.entry_type = entry.entry_type
  /\ EqualsInsensitive(row.value, entry.value)
  /\ (Truthy(entry.state) /\ Truthy(entry.lga))
        => (EqualsInsensitive(row.state, entry.state) /\ EqualsInsensitive(row.lga, entry.lga))

ExistingEntries(store, candidates) ==
  { k \in DOMAIN store : \E c \in DOMAIN candidates : MatchesCandidate(store[k], candidates[c]) }

\* as FilterNew, but nothing is filtered out
FilterNewKeepAll(candidates, existingValues) == candidates

RECURSIVE FilterNew(_, _)
\* pendingEntriesToCreate.filter(entry => !existingValues.has(key))
FilterNew(candidates, existingValues) ==
  IF candidates = <<>> THEN <<>>
  ELSE LET rest == FilterNew(Tail(candidates), existingValues)
       IN IF EntryKey(Head(candidates)) \in existingValues
          THEN rest ELSE <<Head(candidates)>> \o rest

(***************************************************************************)
(* Requests                                                                *)
(***************************************************************************)
ReqIds == 1..MaxReq

Idle == [kind |-> "none", pc |-> "idle"]

Started(i) == reqs[i].pc # "idle"
Ended(i)   == reqs[i].pc \in {"done", "failed", "responded"}
Active     == { j \in ReqIds : Started(j) /\ ~Ended(j) }

\* the operator-account requests, and those of them in flight
OpIds == 1..MaxOps

OpActive == { k \in OpIds : ops[k].pc \notin {"idle", "ended"} }

\* the number of handlers in flight
InFlight == Cardinality(Active) + Cardinality(OpActive)

\* The controller sends the response in the continuation that receives the
\* handler's result, before any other handler's database call can complete.
NoPendingResponse == \A j \in ReqIds : reqs[j].pc \notin {"done", "failed"}

\* handler i continues at position pc
At(i, kind, pc) == NoPendingResponse /\ reqs[i].kind = kind /\ reqs[i].pc = pc

\* request i may enter its handler
CanStart(i) ==
  /\ NoPendingResponse
  /\ reqs[i].pc = "idle"
  /\ \A j \in ReqIds : j < i => (j \in Active \/ reqs[j].pc = "responded")
  /\ InFlight < MaxConcurrent

\* the kinds of which two handlers are in flight once a handler of kind k starts
Overlap(k) ==
  overlapped \cup (IF \E j \in Active : reqs[j].kind = k THEN {k} ELSE {})

(***************************************************************************)
(* feedbackService.create                                                  *)
(***************************************************************************)
Entry(type, value, fid, ftype, state, lga) ==
  [entry_type |-> type, value |-> value, feedback_id |-> fid,
   facility_type |-> ftype, state |-> state, lga |-> lga]

\* the value create() resolves with: { ...feedback, emailStatus }
CreateResult(feedback, emailStatus) ==
  [ok |-> TRUE, id |-> feedback.id, reference_id |-> feedback.reference_id,
   emailStatus |-> emailStatus]

\* reference id and survey token minted for the i-th request
ReferenceId(i) == <<"FB", i>>
SurveyToken(i) == <<"uuid", i>>

\* const feedback = await prisma.feedbackSubmission.create({...})
CreatePersist(i) ==
  /\ CanStart(i)
  /\ Cardinality({ j \in ReqIds : reqs[j].kind = "create" }) < MaxCreate
  /\ \E data \in Payloads, ok \in BOOLEAN :
       LET id == Len(feedbackSubmission) + 1
           feedback == [id |-> id, reference_id |-> ReferenceId(i),
                        survey_token |-> SurveyToken(i)] @@ data @@ FeedbackDefaults
       IN IF ok
          THEN /\ feedbackSubmission' = Append(feedbackSubmission, feedback)
               /\ reqs' = [reqs EXCEPT ![i] =
                     [kind |-> "create", pc |-> "facilityCheck", feedback |-> feedback,
                      candidates |-> <<>>, existingEntries |-> {}, newEntries |-> <<>>,
                      lookupFailed |-> FALSE, dirHadMatch |-> FALSE,
                      pendingFailed |-> FALSE, attempts |-> {},
                      adminSent |-> FALSE, result |-> [ok |-> FALSE],
                      emailStatus |-> Undefined, flagsWritten |-> FALSE,
                      activeAtPersist |-> ActiveAdmins, recipients |-> {}]]
          ELSE /\ feedbackSubmission' = feedbackSubmission
               /\ reqs' = [reqs EXCEPT ![i] =
                     [kind |-> "create", pc |-> "failed", error |-> "DB_ERROR"]]
  /\ overlapped' = Overlap("create")
  /\ UNCHANGED <<admin, ops, issued, surveyResponse, mint, pendingEntry, healthFacility>>

\* as FacilityCandidates, but the Directory is not consulted
FacilityCandidatesIgnoreDirectory(data, fid, lookupOk, dir) ==
  IF Truthy(data.facility_name) /\ Truthy(data.facility_state) /\ Truthy(data.facility_lga)
  THEN << Entry("facility", data.facility_name, fid, data.facility_type,
                data.facility_state, data.facility_lga) >>
  ELSE <<>>

\* as FacilityCandidates, but a failed lookup derives no candidate
FacilityCandidatesFailClosed(data, fid, lookupOk, dir) ==
  IF Truthy(data.facility_name) /\ Truthy(data.facility_state) /\ Truthy(data.facility_lga)
  THEN IF ~lookupOk \/ FacilityExists(dir, data.facility_name, data.facility_state, data.facility_lga)
       THEN <<>>
       ELSE << Entry("facility", data.facility_name, fid, data.facility_type,
                     data.facility_state, data.facility_lga) >>
  ELSE <<>>

\* the facility candidate of lines 332-365
FacilityCandidates(data, fid, lookupOk, dir) ==
  IF Truthy(data.facility_name) /\ Truthy(data.facility_state) /\ Truthy(data.facility_lga)
  THEN IF lookupOk /\ FacilityExists(dir, data.facility_name, data.facility_state, data.facility_lga)
       THEN <<>>
       ELSE << Entry("facility", data.facility_name, fid, data.facility_type,
                     data.facility_state, data.facility_lga) >>
  ELSE <<>>

\* the department, location and issue-classification candidates of lines 367-403
\* the derivation without the vocabulary membership tests
VocabularyCandidatesNoMembership(data, fid) ==
  (IF Truthy(data.department)
   THEN << Entry("department", data.department, fid, Null, Null, Null) >> ELSE <<>>)
  \o
  (IF Truthy(data.location)
   THEN << Entry("location", data.location, fid, Null, Null, Null) >> ELSE <<>>)
  \o
  (IF Truthy(data.issue_classification_other) /\ data.issue_classification = "Other"
   THEN << Entry("issue_classification", data.issue_classification_other, fid,
                 Null, Null, Null) >> ELSE <<>>)

VocabularyCandidates(data, fid) ==
  (IF Truthy(data.department) /\ data.department \notin predefinedDepartments
   THEN << Entry("department", data.department, fid, Null, Null, Null) >> ELSE <<>>)
  \o
  (IF Truthy(data.location) /\ data.location \notin predefinedLocations
   THEN << Entry("location", data.location, fid, Null, Null, Null) >> ELSE <<>>)
  \o
  (IF Truthy(data.issue_classification_other) /\ data.issue_classification = "Other"
   THEN << Entry("issue_classification", data.issue_classification_other, fid,
                 Null, Null, Null) >> ELSE <<>>)

\* lines 331-406: the directory lookup and the derivation of the candidates
CreateFacilityCheck(i) ==
  /\ At(i, "create", "facilityCheck")
  /\ \E lookupOk \in BOOLEAN :
       LET r == reqs[i]
           data == r.feedback
           hasTriple == Truthy(data.facility_name) /\ Truthy(data.facility_state)
                          /\ Truthy(data.facility_lga)
           cands == FacilityCandidates(data, r.feedback.id, lookupOk, healthFacility)
                      \o VocabularyCandidates(data, r.feedback.id)
       IN /\ (~hasTriple) => lookupOk
          /\ reqs' = [reqs EXCEPT ![i] = [r EXCEPT
                 !.candidates = cands,
                 !.lookupFailed = ~lookupOk,
                 !.dirHadMatch = hasTriple /\ FacilityExists(healthFacility,
                      data.facility_name, data.facility_state, data.facility_lga),
                 !.pc = IF Len(cands) > 0 THEN "pendingQuery" ELSE "sendEmails"]]
  /\ UNCHANGED <<admin, ops, issued, surveyResponse, mint, feedbackSubmission, pendingEntry, healthFacility, overlapped>>

\* lines 407-432: prisma.pendingEntry.findMany and the filter
CreatePendingQuery(i) ==
  /\ At(i, "create", "pendingQuery")
  /\ \E ok \in BOOLEAN :
       LET r == reqs[i]
           existingEntries == ExistingEntries(pendingEntry, r.candidates)
           existingValues == { EntryKey(pendingEntry[k]) : k \in existingEntries }
           newEntries == FilterNew(r.candidates, existingValues)
       IN reqs' = [reqs EXCEPT ![i] =
            IF ok
            THEN [r EXCEPT !.existingEntries =
                              { [id |-> k, status |-> pendingEntry[k].status] :
                                  k \in existingEntries },
                           !.newEntries = newEntries,
                           !.pc = IF Len(newEntries) > 0 THEN "pendingInsert" ELSE "sendEmails"]
            ELSE [r EXCEPT !.pendingFailed = TRUE, !.pc = "sendEmails"]]
  /\ UNCHANGED <<admin, ops, issued, surveyResponse, mint, feedbackSubmission, pendingEntry, healthFacility, overlapped>>

RECURSIVE NewRows(_)
NewRows(entries) ==
  IF entries = <<>> THEN <<>>
  ELSE << Head(entries) @@ PendingEntryDefaults >> \o NewRows(Tail(entries))

\* as CreatePendingInsert, but a failed createMany has stored its first row
CreatePendingInsertPartial(i) ==
  /\ At(i, "create", "pendingInsert")
  /\ \E ok \in BOOLEAN :
       LET r == reqs[i]
       IN IF ok
          THEN /\ pendingEntry' = pendingEntry \o NewRows(r.newEntries)
               /\ reqs' = [reqs EXCEPT ![i] = [r EXCEPT !.pc = "sendEmails"]]
          ELSE /\ pendingEntry' = pendingEntry \o NewRows(<< Head(r.newEntries) >>)
               /\ reqs' = [reqs EXCEPT ![i] = [r EXCEPT !.pendingFailed = TRUE,
                                                         !.pc = "sendEmails"]]
  /\ UNCHANGED <<admin, ops, issued, surveyResponse, mint, feedbackSubmission, healthFacility, overlapped>>

\* as CreatePendingInsert, but a failed createMany is rethrown
CreatePendingInsertRethrow(i) ==
  /\ At(i, "create", "pendingInsert")
  /\ \E ok \in BOOLEAN :
       LET r == reqs[i]
       IN IF ok
          THEN /\ pendingEntry' = pendingEntry \o NewRows(r.newEntries)
               /\ reqs' = [reqs EXCEPT ![i] = [r EXCEPT !.pc = "sendEmails"]]
          ELSE /\ pendingEntry' = pendingEntry
               /\ reqs' = [reqs EXCEPT ![i] = [r EXCEPT !.pendingFailed = TRUE,
                                                         !.pc = "failed"]]
  /\ UNCHANGED <<admin, ops, issued, surveyResponse, mint, feedbackSubmission, healthFacility, overlapped>>

\* lines 434-446: prisma.pendingEntry.createMany
CreatePendingInsert(i) ==
  /\ At(i, "create", "pendingInsert")
  /\ \E ok \in BOOLEAN :
       LET r == reqs[i]
       IN IF ok
          THEN /\ pendingEntry' = pendingEntry \o NewRows(r.newEntries)
               /\ reqs' = [reqs EXCEPT ![i] = [r EXCEPT !.pc = "sendEmails"]]
          ELSE /\ pendingEntry' = pendingEntry
               /\ reqs' = [reqs EXCEPT ![i] = [r EXCEPT !.pendingFailed = TRUE,
                                                         !.pc = "sendEmails"]]
  /\ UNCHANGED <<admin, ops, issued, surveyResponse, mint, feedbackSubmission, healthFacility, overlapped>>

\* as AdminRecipients, but the list is the one read when the submission was stored
AdminRecipientsAtPersist(r) == r.activeAtPersist

\* emailService.sendAdminNotification lines 288-299: the addressees are read
\* from the admin table when the broadcast is started
AdminRecipients(r) == ActiveAdmins

\* the notification channels of a submission
Channels == { "confirmation", "followup", "admin" }

\* as CreateSendEmails, but the three sends are started for every submission
CreateSendEmailsFanOutAlways(i) ==
  /\ At(i, "create", "sendEmails")
  /\ LET r == reqs[i]
     IN reqs' = [reqs EXCEPT ![i] = [r EXCEPT
           !.attempts = Channels \ (IF AdminRecipients(r) = {} THEN {"admin"} ELSE {}),
           !.recipients = AdminRecipients(r),
           !.pc = "awaitEmails"]
           @@ [channels |-> [c \in Channels |-> "pending"]]]
  /\ UNCHANGED <<admin, ops, issued, surveyResponse, mint, feedbackSubmission, pendingEntry, healthFacility, overlapped>>

\* lines 448-476 and emailService.sendFeedbackEmails lines 411-415: the sends
\* are started one after the other without awaiting any of them
CreateSendEmails(i) ==
  /\ At(i, "create", "sendEmails")
  /\ LET r == reqs[i]
         fanOut == Truthy(r.feedback.reporter_email) /\ ~r.feedback.anonymous
         started == IF fanOut THEN Channels ELSE {"admin"}
     IN reqs' = [reqs EXCEPT ![i] = [r EXCEPT
           !.attempts = started \ (IF AdminRecipients(r) = {} THEN {"admin"} ELSE {}),
           !.recipients = AdminRecipients(r),
           !.pc = "awaitEmails"]
           @@ [channels |-> [c \in Channels |-> IF c \in started THEN "pending" ELSE "none"]]]
  /\ UNCHANGED <<admin, ops, issued, surveyResponse, mint, feedbackSubmission, pendingEntry, healthFacility, overlapped>>

\* the boolean a settled channel resolved with
Sent(channels, c) == channels[c] = "sent"

\* as ChannelSettle, but a failed send cancels the sends that are still pending
ChannelSettleFailFast(i, c) ==
  /\ At(i, "create", "awaitEmails")
  /\ reqs[i].channels[c] = "pending"
  /\ \E delivered \in BOOLEAN :
       LET r == reqs[i]
           channels == IF delivered
                       THEN [r.channels EXCEPT ![c] = "sent"]
                       ELSE [d \in Channels |->
                               IF d = c THEN "failed"
                               ELSE IF r.channels[d] = "pending" THEN "none"
                               ELSE r.channels[d]]
           settled == \A d \in Channels : channels[d] # "pending"
           fanOut == r.channels["confirmation"] # "none"
       IN reqs' = [reqs EXCEPT ![i] =
            IF ~settled
            THEN [r EXCEPT !.channels = channels]
            ELSE IF fanOut
            THEN [r EXCEPT !.channels = channels,
                           !.emailStatus = << [confirmationSent |-> Sent(channels, "confirmation"),
                                               followupSent |-> Sent(channels, "followup"),
                                               adminNotificationSent |-> Sent(channels, "admin")] >>,
                           !.pc = "flagUpdate"]
            ELSE [r EXCEPT !.channels = channels,
                           !.adminSent = Sent(channels, "admin"),
                           !.pc = "done",
                           !.result = CreateResult(r.feedback, r.emailStatus)]]
  /\ UNCHANGED <<admin, ops, issued, surveyResponse, mint, feedbackSubmission, pendingEntry, healthFacility, overlapped>>

\* one send settles: resend.emails.send resolved (true) or threw (false, caught
\* in the send function).  Promise.all resolves with the three booleans once
\* the last of them has settled; the anonymous branch awaits the one send.
ChannelSettle(i, c) ==
  /\ At(i, "create", "awaitEmails")
  /\ reqs[i].channels[c] = "pending"
  /\ \E delivered \in BOOLEAN :
       LET r == reqs[i]
           channels == [r.channels EXCEPT ![c] = IF delivered THEN "sent" ELSE "failed"]
           settled == \A d \in Channels : channels[d] # "pending"
           fanOut == r.channels["confirmation"] # "none"
       IN reqs' = [reqs EXCEPT ![i] =
            IF ~settled
            THEN [r EXCEPT !.channels = channels]
            ELSE IF fanOut
            THEN [r EXCEPT !.channels = channels,
                           !.emailStatus = << [confirmationSent |-> Sent(channels, "confirmation"),
                                               followupSent |-> Sent(channels, "followup"),
                                               adminNotificationSent |-> Sent(channels, "admin")] >>,
                           !.pc = "flagUpdate"]
            ELSE [r EXCEPT !.channels = channels,
                           !.adminSent = Sent(channels, "admin"),
                           !.pc = "done",
                           !.result = CreateResult(r.feedback, r.emailStatus)]]
  /\ UNCHANGED <<admin, ops, issued, surveyResponse, mint, feedbackSubmission, pendingEntry, healthFacility, overlapped>>

\* as CreateFlagUpdate, but the confirmation is recorded as sent once attempted
CreateFlagUpdateMarksAttempt(i) ==
  /\ At(i, "create", "flagUpdate")
  /\ \E ok \in BOOLEAN :
       LET r == reqs[i]
           id == r.feedback.id
           st == r.emailStatus[1]
       IN /\ feedbackSubmission' =
               IF ok
               THEN [feedbackSubmission EXCEPT
                       ![id].confirmation_email_sent = TRUE,
                       ![id].followup_email_sent = st.followupSent]
               ELSE feedbackSubmission
          /\ reqs' = [reqs EXCEPT ![i] = [r EXCEPT
                 !.flagsWritten = ok,
                 !.pc = "done",
                 !.result = CreateResult(r.feedback, r.emailStatus)]]
  /\ UNCHANGED <<admin, ops, issued, surveyResponse, mint, pendingEntry, healthFacility, overlapped>>

\* emailService.sendFeedbackEmails lines 417-430, then create() returns
CreateFlagUpdate(i) ==
  /\ At(i, "create", "flagUpdate")
  /\ \E ok \in BOOLEAN :
       LET r == reqs[i]
           id == r.feedback.id
           st == r.emailStatus[1]
       IN /\ feedbackSubmission' =
               IF ok
               THEN [feedbackSubmission EXCEPT
                       ![id].confirmation_email_sent = st.confirmationSent,
                       ![id].followup_email_sent = st.followupSent]
               ELSE feedbackSubmission
          /\ reqs' = [reqs EXCEPT ![i] = [r EXCEPT
                 !.flagsWritten = ok,
                 !.pc = "done",
                 !.result = CreateResult(r.feedback, r.emailStatus)]]
  /\ UNCHANGED <<admin, ops, issued, surveyResponse, mint, pendingEntry, healthFacility, overlapped>>

(***************************************************************************)
(* pendingEntryService.updateStatus                                        *)
(***************************************************************************)
PendingEntryStatus == { "pending", "approved", "rejected" }

\* updatePendingEntryValidators: the statuses a request may carry
ResolveDecisions == { "approved", "rejected" }

\* new Date() taken by the i-th request; 0 stands for a null timestamp
Now(i) == i + 1

\* ownershipTypeMap[entry.facility_type?.toLowerCase() || ""] || "unknown"
OwnershipType(facility_type) ==
  IF LowerOrEmpty(facility_type) \in {"federal", "state", "private"}
  THEN LowerOrEmpty(facility_type) ELSE "unknown"

\* as IsDirectoryBacked, but outside the check of the decision
IsDirectoryBackedAnyDecision(status, entry) ==
  /\ entry.entry_type = "facility"
  /\ Truthy(entry.state) /\ Truthy(entry.lga) /\ Truthy(entry.value)

\* the condition of line 98 under status === "approved"
IsDirectoryBacked(status, entry) ==
  /\ status = "approved"
  /\ entry.entry_type = "facility"
  /\ Truthy(entry.state) /\ Truthy(entry.lga) /\ Truthy(entry.value)

\* const entry = await this.getById(id)
UpdateStatusGetById(i) ==
  /\ CanStart(i)
  /\ \E id \in 1..(Len(pendingEntry) + 1), status \in ResolveDecisions, approvedBy \in Admins :
       LET base == [kind |-> "updateStatus",
                    id |-> id, status |-> status, approvedBy |-> approvedBy,
                    now |-> Now(i), dirWriteFailed |-> FALSE, created |-> FALSE,
                    dirHadMatch |-> FALSE, dirLen |-> Len(healthFacility)]
       IN reqs' = [reqs EXCEPT ![i] =
            IF id \in DOMAIN pendingEntry
            THEN base @@ [entry |-> pendingEntry[id],
                          pc |-> IF IsDirectoryBacked(status, pendingEntry[id])
                                 THEN "facilityCheck" ELSE "entryUpdate"]
            ELSE base @@ [pc |-> "failed", error |-> "NOT_FOUND"]]
  /\ overlapped' = Overlap("updateStatus")
  /\ UNCHANGED <<admin, ops, issued, surveyResponse, mint, feedbackSubmission, pendingEntry, healthFacility>>

\* as UpdateStatusFacilityCheck, but the facility is created whatever was found
UpdateStatusFacilityCheckNoRecheck(i) ==
  /\ At(i, "updateStatus", "facilityCheck")
  /\ \E ok \in BOOLEAN :
       LET r == reqs[i]
           existingFacility == FacilityExists(healthFacility, r.entry.value,
                                              r.entry.state, r.entry.lga)
       IN reqs' = [reqs EXCEPT ![i] =
            IF ok
            THEN [r EXCEPT !.dirHadMatch = existingFacility, !.pc = "facilityCreate"]
            ELSE [r EXCEPT !.dirHadMatch = existingFacility,
                           !.pc = "failed"] @@ [error |-> "DIRECTORY_LOOKUP"]]
  /\ UNCHANGED <<admin, ops, issued, surveyResponse, mint, feedbackSubmission, pendingEntry, healthFacility, overlapped>>

\* lines 107-116: prisma.healthFacility.findFirst
UpdateStatusFacilityCheck(i) ==
  /\ At(i, "updateStatus", "facilityCheck")
  /\ \E ok \in BOOLEAN :
       LET r == reqs[i]
           existingFacility == FacilityExists(healthFacility, r.entry.value,
                                              r.entry.state, r.entry.lga)
       IN reqs' = [reqs EXCEPT ![i] =
            IF ok
            THEN [r EXCEPT !.dirHadMatch = existingFacility,
                           !.pc = IF existingFacility THEN "entryUpdate" ELSE "facilityCreate"]
            ELSE [r EXCEPT !.dirHadMatch = existingFacility,
                           !.pc = "failed"] @@ [error |-> "DIRECTORY_LOOKUP"]]
  /\ UNCHANGED <<admin, ops, issued, surveyResponse, mint, feedbackSubmission, pendingEntry, healthFacility, overlapped>>

\* lines 117-126: prisma.healthFacility.create
UpdateStatusFacilityCreate(i) ==
  /\ At(i, "updateStatus", "facilityCreate")
  /\ \E ok \in BOOLEAN :
       LET r == reqs[i]
           row == [facility_name |-> r.entry.value, state |-> r.entry.state,
                   lga |-> r.entry.lga,
                   ownership_type |-> OwnershipType(r.entry.facility_type)]
       IN IF ok
          THEN /\ healthFacility' = Append(healthFacility, row)
               /\ reqs' = [reqs EXCEPT ![i] = [r EXCEPT !.created = TRUE,
                                                         !.pc = "entryUpdate"]]
          ELSE /\ healthFacility' = healthFacility
               /\ reqs' = [reqs EXCEPT ![i] = [r EXCEPT !.dirWriteFailed = TRUE,
                                                         !.pc = "failed"]
                                               @@ [error |-> "DIRECTORY_WRITE"]]
  /\ UNCHANGED <<admin, ops, issued, surveyResponse, mint, feedbackSubmission, pendingEntry, overlapped>>

\* as UpdateStatusEntryUpdate, but a rejection also takes the facility out of
\* the Directory
UpdateStatusEntryUpdateDemotes(i) ==
  /\ At(i, "updateStatus", "entryUpdate")
  /\ LET r == reqs[i]
         e == pendingEntry[r.id]
         updated == IF r.status = "approved"
                    THEN [e EXCEPT !.status = r.status, !.approved_at = r.now,
                                   !.approved_by = r.approvedBy]
                    ELSE [e EXCEPT !.status = r.status]
         Kept(row) == ~(/\ EqualsInsensitive(row.facility_name, e.value)
                        /\ EqualsInsensitive(row.state, e.state)
                        /\ EqualsInsensitive(row.lga, e.lga))
     IN /\ pendingEntry' = [pendingEntry EXCEPT ![r.id] = updated]
        /\ healthFacility' = IF r.status = "rejected" /\ e.entry_type = "facility"
                             THEN SelectSeq(healthFacility, Kept) ELSE healthFacility
        /\ reqs' = [reqs EXCEPT ![i] = [r EXCEPT !.pc = "done"] @@ [result |-> updated]]
  /\ UNCHANGED <<admin, ops, issued, surveyResponse, mint, feedbackSubmission, overlapped>>

\* lines 91-95 and 132-137: prisma.pendingEntry.update({ where: { id }, data: updateData })
UpdateStatusEntryUpdate(i) ==
  /\ At(i, "updateStatus", "entryUpdate")
  /\ LET r == reqs[i]
         updated == IF r.status = "approved"
                    THEN [pendingEntry[r.id] EXCEPT !.status = r.status,
                                                    !.approved_at = r.now,
                                                    !.approved_by = r.approvedBy]
                    ELSE [pendingEntry[r.id] EXCEPT !.status = r.status]
     IN /\ pendingEntry' = [pendingEntry EXCEPT ![r.id] = updated]
        /\ reqs' = [reqs EXCEPT ![i] = [r EXCEPT !.pc = "done"] @@ [result |-> updated]]
  /\ UNCHANGED <<admin, ops, issued, surveyResponse, mint, feedbackSubmission, healthFacility, overlapped>>

(***************************************************************************)
(* feedbackService.update                                                  *)
(***************************************************************************)
FeedbackStatus == { "new", "in_review", "resolved", "closed" }

\* updateFeedbackValidators: status is optional
UpdateStatuses == FeedbackStatus \cup { Null }

\* as UpdateGetById, but a missing row is not reported
UpdateGetByIdNoThrow(i) ==
  /\ CanStart(i)
  /\ \E id \in 1..(Len(feedbackSubmission) + 1), status \in UpdateStatuses :
       LET base == [kind |-> "update",
                    id |-> id, status |-> status, caseClosedAttempts |-> 0,
                    caseClosedEmailSent |-> Undefined, priorStored |-> Null]
       IN reqs' = [reqs EXCEPT ![i] =
            IF id \in DOMAIN feedbackSubmission
            THEN base @@ [existingFeedback |-> feedbackSubmission[id], pc |-> "write"]
            ELSE base @@ [pc |-> "done", error |-> "NONE"]]
  /\ overlapped' = Overlap("update")
  /\ UNCHANGED <<admin, ops, issued, surveyResponse, mint, feedbackSubmission, pendingEntry, healthFacility>>

\* const existingFeedback = await this.getById(id)
UpdateGetById(i) ==
  /\ CanStart(i)
  /\ \E id \in 1..(Len(feedbackSubmission) + 1), status \in UpdateStatuses :
       LET base == [kind |-> "update",
                    id |-> id, status |-> status, caseClosedAttempts |-> 0,
                    caseClosedEmailSent |-> Undefined, priorStored |-> Null]
       IN reqs' = [reqs EXCEPT ![i] =
            IF id \in DOMAIN feedbackSubmission
            THEN base @@ [existingFeedback |-> feedbackSubmission[id], pc |-> "write"]
            ELSE base @@ [pc |-> "failed", error |-> "NOT_FOUND"]]
  /\ overlapped' = Overlap("update")
  /\ UNCHANGED <<admin, ops, issued, surveyResponse, mint, feedbackSubmission, pendingEntry, healthFacility>>

\* as ShouldSendCaseClosed, but whoever the reporter is
ShouldSendCaseClosedAnyReporter(status, existingFeedback, feedback) ==
  /\ status = "closed"
  /\ existingFeedback.status # "closed"

\* as ShouldSendCaseClosed, but without the comparison with the prior status
ShouldSendCaseClosedNoPriorCheck(status, existingFeedback, feedback) ==
  /\ status = "closed"
  /\ Truthy(feedback.reporter_email)
  /\ ~feedback.anonymous

\* the condition of lines 596-601
ShouldSendCaseClosed(status, existingFeedback, feedback) ==
  /\ status = "closed"
  /\ existingFeedback.status # "closed"
  /\ Truthy(feedback.reporter_email)
  /\ ~feedback.anonymous

\* as UpdateWrite, but the update also writes a fresh reference id
UpdateWriteRemints(i) ==
  /\ At(i, "update", "write")
  /\ LET r == reqs[i]
         feedback == IF r.status # Null
                     THEN [feedbackSubmission[r.id] EXCEPT !.status = r.status,
                                                           !.reference_id = ReferenceId(i)]
                     ELSE feedbackSubmission[r.id]
     IN /\ feedbackSubmission' = [feedbackSubmission EXCEPT ![r.id] = feedback]
        /\ reqs' = [reqs EXCEPT ![i] =
              [r EXCEPT !.priorStored = feedbackSubmission[r.id].status,
                        !.pc = IF ShouldSendCaseClosed(r.status, r.existingFeedback, feedback)
                               THEN "caseClosed" ELSE "done"]
              @@ [feedback |-> feedback]]
  /\ UNCHANGED <<admin, ops, issued, surveyResponse, mint, pendingEntry, healthFacility, overlapped>>

\* lines 589-601: prisma.feedbackSubmission.update({ where: { id }, data })
UpdateWrite(i) ==
  /\ At(i, "update", "write")
  /\ LET r == reqs[i]
         feedback == IF r.status # Null
                     THEN [feedbackSubmission[r.id] EXCEPT !.status = r.status]
                     ELSE feedbackSubmission[r.id]
     IN /\ feedbackSubmission' = [feedbackSubmission EXCEPT ![r.id] = feedback]
        /\ reqs' = [reqs EXCEPT ![i] =
              [r EXCEPT !.priorStored = feedbackSubmission[r.id].status,
                        !.pc = IF ShouldSendCaseClosed(r.status, r.existingFeedback, feedback)
                               THEN "caseClosed" ELSE "done"]
              @@ [feedback |-> feedback]]
  /\ UNCHANGED <<admin, ops, issued, surveyResponse, mint, pendingEntry, healthFacility, overlapped>>

\* lines 602-614: emailService.sendCaseClosedEmail
UpdateSendCaseClosed(i) ==
  /\ At(i, "update", "caseClosed")
  /\ \E delivered \in BOOLEAN :
       reqs' = [reqs EXCEPT ![i] = [reqs[i] EXCEPT
                  !.caseClosedAttempts = @ + 1,
                  !.caseClosedEmailSent = <<delivered>>,
                  !.pc = "done"]]
  /\ UNCHANGED <<admin, ops, issued, surveyResponse, mint, feedbackSubmission, pendingEntry, healthFacility, overlapped>>

(***************************************************************************)
(* feedbackService.generateReferenceId.  Strings are sequences of           *)
(* characters; Math.random() is a fraction num/den with den a power of two, *)
(* as every double is.                                                     *)
(***************************************************************************)
\* bits of the random fractions drawn
RandBits == 10

\* the radix of Number.prototype.toString(36)
Radix == 36

\* the digits of radix 36, and their upper-case forms
Base36Chars ==
  << "0", "1", "2", "3", "4", "5", "6", "7", "8", "9", "a", "b", "c", "d", "e", "f",
     "g", "h", "i", "j", "k", "l", "m", "n", "o", "p", "q", "r", "s", "t", "u", "v",
     "w", "x", "y", "z" >>

UpperChars ==
  << "0", "1", "2", "3", "4", "5", "6", "7", "8", "9", "A", "B", "C", "D", "E", "F",
     "G", "H", "I", "J", "K", "L", "M", "N", "O", "P", "Q", "R", "S", "T", "U", "V",
     "W", "X", "Y", "Z" >>

\* String.prototype.toUpperCase, character by character
ToUpperCaseChars(str) ==
  [k \in DOMAIN str |->
     IF \E d \in DOMAIN Base36Chars : Base36Chars[d] = str[k]
     THEN UpperChars[CHOOSE d \in DOMAIN Base36Chars : Base36Chars[d] = str[k]]
     ELSE str[k]]

\* String.prototype.substring(from, to)
Substring(str, from, to) ==
  SubSeq(str, from + 1, IF to < Len(str) THEN to ELSE Len(str))

RECURSIVE Decimal(_, _)
\* n in decimal, padded with zeros to width digits
Decimal(n, width) ==
  IF width = 0 THEN <<>>
  ELSE Decimal(n \div 10, width - 1) \o << Base36Chars[(n % 10) + 1] >>

\* date.toISOString().slice(0, 10).replace(/-/g, "")
DateStr(date) == Decimal(date.year, 4) \o Decimal(date.month, 2) \o Decimal(date.day, 2)

RECURSIVE FractionDigits(_, _)
\* the digits of num/den after the point in radix 36, up to the last non-zero one
FractionDigits(num, den) ==
  IF num = 0 THEN <<>>
  ELSE << Base36Chars[((num * Radix) \div den) + 1] >>
         \o FractionDigits((num * Radix) % den, den)

\* (num/den).toString(36) for 0 <= num/den < 1
ToString36(num, den) ==
  IF num = 0 THEN << "0" >> ELSE << "0", "." >> \o FractionDigits(num, den)

\* lines 297-302
generateReferenceId(date, random) ==
  LET dateStr == DateStr(date)
      randomPart == ToUpperCaseChars(Substring(ToString36(random.num, random.den), 2, 7))
  IN << "F", "B", "-" >> \o dateStr \o << "-" >> \o randomPart

\* new Date()
Dates == { [year |-> 2026, month |-> 1, day |-> 20], [year |-> 2026, month |-> 11, day |-> 5] }

\* Math.random(): the fractions m / 2^RandBits in [0, 1)
RandomValues == { [num |-> m, den |-> 2 ^ RandBits] : m \in 0..((2 ^ RandBits) - 1) }

\* one call of generateReferenceId with the clock and the random number drawn
GenerateReferenceId ==
  /\ mint.date # Undefined /\ mint.referenceId = Undefined
  /\ mint' = [mint EXCEPT !.referenceId = << generateReferenceId(mint.date[1], mint.random[1]) >>]
  /\ UNCHANGED <<admin, ops, issued, feedbackSubmission, pendingEntry, healthFacility, surveyResponse, reqs,
                 overlapped>>

(***************************************************************************)
(* surveyService.submit                                                    *)
(***************************************************************************)
\* a well-formed UUID that is no submission's survey token
UnknownToken == <<"uuid", -1>>

\* the rows of the Feedback Store found by findUnique({ where: { survey_token } })
FeedbackByToken(token) ==
  { k \in DOMAIN feedbackSubmission : feedbackSubmission[k].survey_token = token }

\* prisma.surveyResponse.findUnique({ where: { feedback_id } })
SurveyExists(fid) == \E k \in DOMAIN surveyResponse : surveyResponse[k].feedback_id = fid

\* lines 29-36: prisma.feedbackSubmission.findUnique by survey token
SurveyFindFeedback(i) ==
  /\ CanStart(i)
  /\ \E token \in { feedbackSubmission[k].survey_token : k \in DOMAIN feedbackSubmission }
                    \cup { UnknownToken } :
       LET found == FeedbackByToken(token)
           base == [kind |-> "survey", token |-> token]
       IN reqs' = [reqs EXCEPT ![i] =
            IF found = {}
            THEN base @@ [pc |-> "failed", error |-> "INVALID_TOKEN"]
            ELSE LET fid == CHOOSE k \in found : TRUE
                 IN base @@ [pc |-> "checkExisting", feedbackId |-> fid,
                             existedAtStart |-> SurveyExists(fid)]]
  /\ overlapped' = Overlap("survey")
  /\ UNCHANGED <<admin, ops, issued, feedbackSubmission, pendingEntry, healthFacility, surveyResponse, mint>>

\* lines 38-46: prisma.surveyResponse.findUnique by feedback id
SurveyCheckExisting(i) ==
  /\ At(i, "survey", "checkExisting")
  /\ reqs' = [reqs EXCEPT ![i] =
        IF SurveyExists(reqs[i].feedbackId)
        THEN [reqs[i] EXCEPT !.pc = "failed"] @@ [error |-> "ALREADY_SUBMITTED"]
        ELSE [reqs[i] EXCEPT !.pc = "create"]]
  /\ UNCHANGED <<admin, ops, issued, feedbackSubmission, pendingEntry, healthFacility, surveyResponse,
                 overlapped, mint>>

\* as SurveyCreate, but feedback_id is not a unique column
SurveyCreateUnconstrained(i) ==
  /\ At(i, "survey", "create")
  /\ surveyResponse' = Append(surveyResponse, [id |-> Len(surveyResponse) + 1,
                                               feedback_id |-> reqs[i].feedbackId])
  /\ reqs' = [reqs EXCEPT ![i] = [reqs[i] EXCEPT !.pc = "done"]]
  /\ UNCHANGED <<admin, ops, issued, feedbackSubmission, pendingEntry, healthFacility, overlapped, mint>>

\* lines 48-62: prisma.surveyResponse.create; feedback_id is a unique column
\* (it is the key of findUnique), so a second row for it is refused
SurveyCreate(i) ==
  /\ At(i, "survey", "create")
  /\ IF SurveyExists(reqs[i].feedbackId)
     THEN /\ surveyResponse' = surveyResponse
          /\ reqs' = [reqs EXCEPT ![i] =
                [reqs[i] EXCEPT !.pc = "failed"] @@ [error |-> "UNIQUE_CONSTRAINT"]]
     ELSE /\ surveyResponse' = Append(surveyResponse, [id |-> Len(surveyResponse) + 1,
                                                      feedback_id |-> reqs[i].feedbackId])
          /\ reqs' = [reqs EXCEPT ![i] = [reqs[i] EXCEPT !.pc = "done"]]
  /\ UNCHANGED <<admin, ops, issued, feedbackSubmission, pendingEntry, healthFacility, overlapped, mint>>

(***************************************************************************)
(* Operator accounts: adminService.delete and toggleActive, the            *)
(* authenticate middleware, authService.login and refreshToken.  A token   *)
(* names the account it was signed for; jwt.verify accepts it when it was  *)
(* signed with the server's secret and has not expired.                    *)
(***************************************************************************)
\* operator request k may enter its handler
OpCanStart(k) ==
  /\ NoPendingResponse
  /\ ops[k].pc = "idle"
  /\ \A j \in OpIds : j < k => ops[j].pc # "idle"
  /\ InFlight < MaxConcurrent

\* the record of a request whose response has been sent
OpEnded(kind, id, ok, error) ==
  [kind |-> kind, pc |-> "ended", id |-> id, ok |-> ok, error |-> error]

UnknownAdmin == "admin0"

\* adminService.getById, as delete and toggleActive call it first
AdminGetById(k) ==
  /\ OpCanStart(k)
  /\ \E kind \in {"delete", "toggleActive"}, id \in Operators \cup {UnknownAdmin} :
       ops' = [ops EXCEPT ![k] =
                 IF id \in DOMAIN admin
                 THEN [kind |-> kind, pc |-> "update", id |-> id,
                       is_active |-> admin[id].is_active]
                 ELSE OpEnded(kind, id, FALSE, "NOT_FOUND")]
  /\ UNCHANGED <<admin, issued, feedbackSubmission, pendingEntry, healthFacility,
                 surveyResponse, reqs, overlapped, mint>>

\* adminService.delete: prisma.admin.update({ is_active: false })
AdminDeleteUpdate(k) ==
  /\ NoPendingResponse
  /\ ops[k].kind = "delete" /\ ops[k].pc = "update"
  /\ admin' = [admin EXCEPT ![ops[k].id].is_active = FALSE]
  /\ ops' = [ops EXCEPT ![k] = OpEnded("delete", ops[k].id, TRUE, Null)]
  /\ UNCHANGED <<issued, feedbackSubmission, pendingEntry, healthFacility,
                 surveyResponse, reqs, overlapped, mint>>

\* adminService.toggleActive: prisma.admin.update({ is_active: !admin.is_active })
\* with the value getById returned
AdminToggleUpdate(k) ==
  /\ NoPendingResponse
  /\ ops[k].kind = "toggleActive" /\ ops[k].pc = "update"
  /\ admin' = [admin EXCEPT ![ops[k].id].is_active = ~ops[k].is_active]
  /\ ops' = [ops EXCEPT ![k] = OpEnded("toggleActive", ops[k].id, TRUE, Null)]
  /\ UNCHANGED <<issued, feedbackSubmission, pendingEntry, healthFacility,
                 surveyResponse, reqs, overlapped, mint>>

NoToken == [userId |-> Null, type |-> "none"]

Token(userId, type) == [userId |-> userId, type |-> type]

\* what a client can present: nothing, or an access or refresh token naming an
\* account (signed by the server exactly when the account is in issued)
PresentedTokens ==
  {NoToken} \cup { Token(a, t) : a \in Operators, t \in {"access", "refresh"} }

\* utils/jwt.ts verifyToken: the decoded payload, or null
verifyToken(token, expired) ==
  IF token.userId \in issued /\ ~expired THEN << [userId |-> token.userId] >> ELSE Undefined

\* as Authenticate, but a verified token is trusted without reading the account
AuthenticateTrustsToken(k) ==
  /\ OpCanStart(k)
  /\ \E token \in PresentedTokens, expired \in BOOLEAN :
       ops' = [ops EXCEPT ![k] =
          IF token = NoToken
          THEN OpEnded("authenticate", Null, FALSE, "NO_TOKEN")
          ELSE IF verifyToken(token, expired) = Undefined
          THEN OpEnded("authenticate", token.userId, FALSE, "INVALID_TOKEN")
          ELSE OpEnded("authenticate", token.userId, TRUE, Null)]
  /\ UNCHANGED <<admin, issued, feedbackSubmission, pendingEntry, healthFacility,
                 surveyResponse, reqs, overlapped, mint>>

\* middleware/auth.ts authenticate: the token is extracted and verified, then
\* the account is read and must exist and be active
Authenticate(k) ==
  /\ OpCanStart(k)
  /\ \E token \in PresentedTokens, expired \in BOOLEAN :
       ops' = [ops EXCEPT ![k] =
          IF token = NoToken
          THEN OpEnded("authenticate", Null, FALSE, "NO_TOKEN")
          ELSE LET decoded == verifyToken(token, expired)
               IN IF decoded = Undefined
                  THEN OpEnded("authenticate", token.userId, FALSE, "INVALID_TOKEN")
                  ELSE IF decoded[1].userId \notin DOMAIN admin
                          \/ ~admin[decoded[1].userId].is_active
                  THEN OpEnded("authenticate", decoded[1].userId, FALSE, "USER_INACTIVE")
                  ELSE OpEnded("authenticate", decoded[1].userId, TRUE, Null)]
  /\ UNCHANGED <<admin, issued, feedbackSubmission, pendingEntry, healthFacility,
                 surveyResponse, reqs, overlapped, mint>>

\* authService.refreshToken: verify, read the account, sign new tokens
RefreshToken(k) ==
  /\ OpCanStart(k)
  /\ \E token \in PresentedTokens \ {NoToken}, expired \in BOOLEAN :
       LET decoded == verifyToken(token, expired)
           ok == /\ decoded # Undefined
                 /\ decoded[1].userId \in DOMAIN admin
                 /\ admin[decoded[1].userId].is_active
       IN /\ ops' = [ops EXCEPT ![k] =
                IF decoded = Undefined
                THEN OpEnded("refreshToken", token.userId, FALSE, "INVALID_TOKEN")
                ELSE IF ~ok
                THEN OpEnded("refreshToken", decoded[1].userId, FALSE, "USER_INVALID")
                ELSE OpEnded("refreshToken", decoded[1].userId, TRUE, Null)]
          /\ issued' = IF ok THEN issued \cup {decoded[1].userId} ELSE issued
  /\ UNCHANGED <<admin, feedbackSubmission, pendingEntry, healthFacility,
                 surveyResponse, reqs, overlapped, mint>>

\* the e-mail addresses a client logs in with
LoginEmails == { "Admin1@x.org", "admin2@x.org", "nobody@x.org" }

\* authService.login lines 19-41: the account is read by its lower-cased
\* e-mail address and must exist, be active and have a password
LoginFind(k) ==
  /\ OpCanStart(k)
  /\ \E email \in LoginEmails :
       LET found == { a \in DOMAIN admin : admin[a].email = ToLowerCase(email) }
       IN ops' = [ops EXCEPT ![k] =
            IF found = {}
            THEN OpEnded("login", Null, FALSE, "INVALID_CREDENTIALS")
            ELSE LET a == CHOOSE a \in found : TRUE
                 IN IF ~admin[a].is_active
                    THEN OpEnded("login", a, FALSE, "ACCOUNT_DISABLED")
                    ELSE IF admin[a].password_hash = Null
                    THEN OpEnded("login", a, FALSE, "NO_PASSWORD")
                    ELSE [kind |-> "login", pc |-> "compare", id |-> a]]
  /\ UNCHANGED <<admin, issued, feedbackSubmission, pendingEntry, healthFacility,
                 surveyResponse, reqs, overlapped, mint>>

\* authService.login lines 43-73: comparePassword, then the tokens are signed
LoginCompare(k) ==
  /\ NoPendingResponse
  /\ ops[k].kind = "login" /\ ops[k].pc = "compare"
  /\ \E isValid \in BOOLEAN :
       /\ ops' = [ops EXCEPT ![k] =
             IF isValid THEN OpEnded("login", ops[k].id, TRUE, Null)
             ELSE OpEnded("login", ops[k].id, FALSE, "INVALID_CREDENTIALS")]
       /\ issued' = IF isValid THEN issued \cup {ops[k].id} ELSE issued
  /\ UNCHANGED <<admin, feedbackSubmission, pendingEntry, healthFacility,
                 surveyResponse, reqs, overlapped, mint>>

(***************************************************************************)
(* Initial states: the seeded directory, and the stores as earlier         *)
(* requests can have left them: nothing submitted yet, or one submission   *)
(* of a facility that is not in the directory, whose pending entry is      *)
(* still pending, was rejected, or was approved and promoted.              *)
(***************************************************************************)
SeededDirectory ==
  << [facility_name |-> "General Hospital", state |-> "Lagos",
      lga |-> "Ikeja", ownership_type |-> "state"] >>

EarlierPayload ==
  Payload(FALSE, "a@x.org", "Private", "Hope Clinic", "Lagos", "Ikeja",
          Null, Null, Null, Null)

EarlierFeedback(status) ==
  [[id |-> 1, reference_id |-> ReferenceId(0), survey_token |-> SurveyToken(0)]
     @@ EarlierPayload @@ FeedbackDefaults
   EXCEPT !.status = status, !.confirmation_email_sent = TRUE, !.followup_email_sent = TRUE]

EarlierEntry ==
  Entry("facility", "Hope Clinic", 1, "Private", "Lagos", "Ikeja") @@ PendingEntryDefaults

InitialStores ==
  { [fs |-> <<>>, pe |-> <<>>, hf |-> SeededDirectory],
    [fs |-> << EarlierFeedback("new") >>,
     pe |-> << EarlierEntry >>,
     hf |-> SeededDirectory],
    [fs |-> << EarlierFeedback("closed") >>,
     pe |-> << [EarlierEntry EXCEPT !.status = "rejected"] >>,
     hf |-> SeededDirectory],
    [fs |-> << EarlierFeedback("in_review") >>,
     pe |-> << [EarlierEntry EXCEPT !.status = "approved", !.approved_at = 1,
                                    !.approved_by = "admin1"] >>,
     hf |-> SeededDirectory \o
            << [facility_name |-> "Hope Clinic", state |-> "Lagos", lga |-> "Ikeja",
                ownership_type |-> OwnershipType("Private")] >>] }

\* no reference id is being generated
NoMint == [date |-> Undefined, random |-> Undefined, referenceId |-> Undefined]

Init ==
  /\ \E s \in InitialStores :
       /\ feedbackSubmission = s.fs
       /\ pendingEntry = s.pe
       /\ healthFacility = s.hf
  /\ surveyResponse = <<>>
  /\ reqs = [i \in ReqIds |-> Idle]
  /\ overlapped = {}
  /\ mint = NoMint
  /\ admin = SeededAdmins(Operators)
  /\ ops = [k \in OpIds |-> Idle]
  /\ issued = {}

(***************************************************************************)
(* Controllers: the response is sent (res.json or next(error)) and the     *)
(* handler's locals go away.  Of a submission the console log keeps        *)
(* whether the pending entries could be stored.                            *)
(***************************************************************************)
Respond(i) ==
  /\ reqs[i].pc \in {"done", "failed"}
  /\ reqs' = [reqs EXCEPT ![i] =
        IF reqs[i].kind = "create" /\ reqs[i].pc = "done"
        THEN [kind |-> "create", pc |-> "responded", feedbackId |-> reqs[i].feedback.id,
              pendingFailed |-> reqs[i].pendingFailed]
        ELSE [kind |-> reqs[i].kind, pc |-> "responded", feedbackId |-> 0,
              pendingFailed |-> FALSE]]
  /\ UNCHANGED <<admin, ops, issued, surveyResponse, mint, feedbackSubmission, pendingEntry, healthFacility, overlapped>>

(***************************************************************************)
(* Specification                                                           *)
(***************************************************************************)
\* a step of a handler or of a controller; the e-mail provider's replies are
\* the ChannelSettle steps
Step(i) ==
  \/ CreatePersist(i)
  \/ CreateFacilityCheck(i)
  \/ CreatePendingQuery(i)
  \/ CreatePendingInsert(i)
  \/ CreateSendEmails(i)
  \/ CreateFlagUpdate(i)
  \/ UpdateStatusGetById(i)
  \/ UpdateStatusFacilityCheck(i)
  \/ UpdateStatusFacilityCreate(i)
  \/ UpdateStatusEntryUpdate(i)
  \/ UpdateGetById(i)
  \/ UpdateWrite(i)
  \/ UpdateSendCaseClosed(i)
  \/ SurveyFindFeedback(i)
  \/ SurveyCheckExisting(i)
  \/ SurveyCreate(i)
  \/ Respond(i)

Next ==
  \E i \in ReqIds :
     \/ Step(i)
     \/ \E c \in Channels : ChannelSettle(i, c)

Spec == Init /\ [][Next]_vars

\* Every database call completes and every response is sent; the provider
\* answers the survey invite and the admin broadcast, but nothing obliges it to
\* answer the confirmation.
ConfirmationMayHang ==
  WF_vars(\E i \in ReqIds :
             \/ Step(i)
             \/ \E c \in Channels \ {"confirmation"} : ChannelSettle(i, c))

SpecConfirmationMayHang == Init /\ [][Next]_vars /\ ConfirmationMayHang

\* generateReferenceId on its own, for every clock value and random number
InitReferenceId ==
  /\ feedbackSubmission = <<>> /\ pendingEntry = <<>> /\ healthFacility = SeededDirectory
  /\ surveyResponse = <<>>
  /\ reqs = [i \in ReqIds |-> Idle]
  /\ overlapped = {}
  /\ admin = SeededAdmins(Operators)
  /\ ops = [k \in OpIds |-> Idle]
  /\ issued = {}
  /\ \E date \in Dates, random \in RandomValues :
        mint = [date |-> <<date>>, random |-> <<random>>, referenceId |-> Undefined]

SpecReferenceId == InitReferenceId /\ [][GenerateReferenceId]_vars

\* the operator accounts on their own: any of them may have been deactivated
\* earlier
InitOperators ==
  /\ feedbackSubmission = <<>> /\ pendingEntry = <<>> /\ healthFacility = SeededDirectory
  /\ surveyResponse = <<>>
  /\ reqs = [i \in ReqIds |-> Idle]
  /\ overlapped = {}
  /\ mint = NoMint
  /\ \E active \in SUBSET Operators : admin = SeededAdmins(active)
  /\ ops = [k \in OpIds |-> Idle]
  /\ issued = {}

AccountStep(k) ==
  \/ AdminGetById(k)
  \/ AdminDeleteUpdate(k)
  \/ AdminToggleUpdate(k)

NextOperators ==
  \E k \in OpIds :
     \/ AccountStep(k)
     \/ Authenticate(k)
     \/ RefreshToken(k)
     \/ LoginFind(k)
     \/ LoginCompare(k)

SpecOperators == InitOperators /\ [][NextOperators]_vars

\* MaxBroadcast submissions while MaxSwitches requests switch operator accounts
\* off and on
CreateStep(i) ==
  \/ CreatePersist(i)
  \/ CreateFacilityCheck(i)
  \/ CreatePendingQuery(i)
  \/ CreatePendingInsert(i)
  \/ CreateSendEmails(i)
  \/ CreateFlagUpdate(i)
  \/ Respond(i)

NextBroadcast ==
  \/ \E i \in 1..MaxBroadcast :
        \/ CreateStep(i)
        \/ \E c \in Channels : ChannelSettle(i, c)
  \/ \E k \in 1..MaxSwitches : AccountStep(k)

SpecBroadcast == InitOperators /\ [][NextBroadcast]_vars

(***************************************************************************)
(* Properties                                                              *)
(***************************************************************************)
CreateDone(i) == reqs[i].kind = "create" /\ reqs[i].pc = "done"

HasTriple(d) ==
  Truthy(d.facility_name) /\ Truthy(d.facility_state) /\ Truthy(d.facility_lga)

\* the dedup key of a Pending-Entry row or candidate
PendingKey(e) ==
  <<e.entry_type, ToLowerCase(e.value), LowerOrEmpty(e.state), LowerOrEmpty(e.lga)>>

FacilityKey(d) ==
  <<"facility", ToLowerCase(d.facility_name), ToLowerCase(d.facility_state),
    ToLowerCase(d.facility_lga)>>

\* the rows the Pending-Entry Store holds for the facility candidate of payload d
CandidateRows(d) ==
  { k \in DOMAIN pendingEntry : PendingKey(pendingEntry[k]) = FacilityKey(d) }

\* the facility candidate was derived by request i and then suppressed
FacilitySuppressed(i) ==
  /\ \E c \in DOMAIN reqs[i].candidates : reqs[i].candidates[c].entry_type = "facility"
  /\ ~reqs[i].pendingFailed
  /\ \A c \in DOMAIN reqs[i].newEntries : reqs[i].newEntries[c].entry_type # "facility"

\* the row the i-th request persisted, if any
RowOf(i) ==
  { k \in DOMAIN feedbackSubmission : feedbackSubmission[k].reference_id = ReferenceId(i) }

\* C1: once submit has persisted the FeedbackSubmission row it never reports
\* failure, and it returns that row's id and reference code, whatever the
\* directory lookup, the pending-entry query and insert and the sends did.
C1_SubmitReturnsOncePersisted ==
  \A i \in ReqIds : \A k \in RowOf(i) :
     reqs[i].kind = "create" =>
       /\ reqs[i].pc # "failed"
       /\ reqs[i].pc = "done" =>
            /\ reqs[i].result.ok
            /\ reqs[i].result.id = k
            /\ reqs[i].result.reference_id = feedbackSubmission[k].reference_id

C1_Witness ==
  \E i \in ReqIds :
     /\ CreateDone(i)
     /\ reqs[i].lookupFailed /\ reqs[i].pendingFailed
     /\ reqs[i].emailStatus = << [confirmationSent |-> FALSE, followupSent |-> FALSE,
                                  adminNotificationSent |-> FALSE] >>
     /\ reqs[i].result.ok

\* request i is a finished submission that followed the finished submission
\* stored as row k, both carry the same facility name, region and sub-region,
\* no submissions ran concurrently and the directory had no match
SecondSubmission(i, k) ==
  /\ CreateDone(i)
  /\ "create" \notin overlapped
  /\ k \in DOMAIN feedbackSubmission /\ k # reqs[i].feedback.id
  /\ HasTriple(reqs[i].feedback)
  /\ feedbackSubmission[k].facility_name = reqs[i].feedback.facility_name
  /\ feedbackSubmission[k].facility_state = reqs[i].feedback.facility_state
  /\ feedbackSubmission[k].facility_lga = reqs[i].feedback.facility_lga
  /\ ~reqs[i].dirHadMatch

\* the submission stored as row k logged a Pending-Entry Store failure
PendingFailedOf(k) ==
  \E j \in ReqIds : /\ reqs[j].kind = "create" /\ reqs[j].pc = "responded"
                     /\ reqs[j].feedbackId = k /\ reqs[j].pendingFailed

\* C2 (as stated): after two submissions, one after the other, of the same
\* facility name, region and sub-region without a directory match, the
\* Pending-Entry Store holds exactly one row for that candidate.
C2_ExactlyOneRow ==
  \A i \in ReqIds : \A k \in DOMAIN feedbackSubmission :
     SecondSubmission(i, k) => Cardinality(CandidateRows(reqs[i].feedback)) = 1

\* C2 (amended): after the two submissions the store holds at most one row for
\* the candidate, and exactly one if the Pending-Entry Store query and insert
\* succeeded in at least one of the two.
C2_AtMostOneRow ==
  \A i \in ReqIds : \A k \in DOMAIN feedbackSubmission :
     SecondSubmission(i, k) =>
       /\ Cardinality(CandidateRows(reqs[i].feedback)) <= 1
       /\ (~reqs[i].pendingFailed \/ ~PendingFailedOf(k))
             => Cardinality(CandidateRows(reqs[i].feedback)) = 1

C2_Witness ==
  \E i \in ReqIds : \E k \in DOMAIN feedbackSubmission :
     /\ SecondSubmission(i, k)
     /\ \E j \in ReqIds : reqs[j].pc = "responded" /\ reqs[j].feedbackId = k
     /\ FacilitySuppressed(i)
     /\ Cardinality(CandidateRows(reqs[i].feedback)) = 1

\* no two pending or approved rows share a dedup key
NoDuplicatePendingEntries ==
  \A a \in DOMAIN pendingEntry : \A b \in DOMAIN pendingEntry :
     (/\ a # b
      /\ pendingEntry[a].status \in {"pending", "approved"}
      /\ pendingEntry[b].status \in {"pending", "approved"})
        => PendingKey(pendingEntry[a]) # PendingKey(pendingEntry[b])

\* C3 (as stated): under any interleaving of submit and resolvePendingEntry,
\* no two pending or approved PendingEntry rows share (category, value,
\* region, sub-region) compared case-insensitively.
C3_UniqueUnderAnyInterleaving == NoDuplicatePendingEntries

\* C3 (amended): the same, for every interleaving of submits with
\* resolvePendingEntry operations in which no two submits run concurrently.
C3_UniqueWithoutConcurrentSubmits ==
  "create" \notin overlapped => NoDuplicatePendingEntries

C3_Witness ==
  \E i \in ReqIds : \E j \in ReqIds :
     /\ CreateDone(i) /\ "create" \notin overlapped
     /\ FacilitySuppressed(i)
     /\ reqs[j].kind = "updateStatus" /\ reqs[j].pc \notin {"idle", "responded"}

\* C4: when the only rows matching a candidate's dedup key are rejected, a
\* later submit carrying that candidate inserts a new pending row for it.
C4_RejectedDoesNotBlock ==
  \A i \in ReqIds :
     (CreateDone(i) /\ ~reqs[i].pendingFailed /\ overlapped = {}) =>
       \A c \in DOMAIN reqs[i].candidates :
          LET cand == reqs[i].candidates[c]
              matches == { e \in reqs[i].existingEntries :
                             PendingKey(pendingEntry[e.id]) = PendingKey(cand) }
          IN (matches # {} /\ \A e \in matches : e.status = "rejected") =>
               \E k \in DOMAIN pendingEntry :
                  /\ pendingEntry[k].feedback_id = reqs[i].feedback.id
                  /\ PendingKey(pendingEntry[k]) = PendingKey(cand)
                  /\ pendingEntry[k].status = "pending"

\* request i is an approval of a facility entry with region and sub-region
\* that has come to its end, and no two resolutions ran concurrently
FacilityApprovalEnded(i) ==
  /\ reqs[i].kind = "updateStatus"
  /\ reqs[i].pc \in {"done", "failed"}
  /\ ~(reqs[i].pc = "failed" /\ reqs[i].error = "NOT_FOUND")
  /\ reqs[i].status = "approved"
  /\ reqs[i].entry.entry_type = "facility"
  /\ Truthy(reqs[i].entry.state) /\ Truthy(reqs[i].entry.lga)
  /\ "updateStatus" \notin overlapped

\* the Directory Entries matching a pending entry case-insensitively
DirectoryRows(e) ==
  { k \in DOMAIN healthFacility :
      /\ ToLowerCase(healthFacility[k].facility_name) = ToLowerCase(e.value)
      /\ ToLowerCase(healthFacility[k].state) = ToLowerCase(e.state)
      /\ ToLowerCase(healthFacility[k].lga) = ToLowerCase(e.lga) }

DirectoryUnique ==
  \A a \in DOMAIN healthFacility : \A b \in DOMAIN healthFacility :
     a # b => ~( /\ ToLowerCase(healthFacility[a].facility_name)
                      = ToLowerCase(healthFacility[b].facility_name)
                 /\ ToLowerCase(healthFacility[a].state) = ToLowerCase(healthFacility[b].state)
                 /\ ToLowerCase(healthFacility[a].lga) = ToLowerCase(healthFacility[b].lga) )

\* C6 (as stated): under any interleaving of approvals, concurrent approvals
\* included, no two Directory Entries have the same (name, region,
\* sub-region) compared case-insensitively.
C6_DirectoryUniqueUnderAnyInterleaving == DirectoryUnique

\* C6 (amended): the same, for every interleaving of the operations in which
\* no two resolvePendingEntry calls run concurrently.
C6_DirectoryUniqueWithoutConcurrentApprovals ==
  "updateStatus" \notin overlapped => DirectoryUnique

C6_Witness ==
  \E i \in ReqIds : \E j \in ReqIds :
     /\ reqs[i].kind = "updateStatus" /\ reqs[i].pc = "done" /\ reqs[i].created
     /\ reqs[j].kind = "create" /\ reqs[j].pc \notin {"idle", "failed", "responded"}
     /\ "updateStatus" \notin overlapped

\* C7: the Directory changes only in the step in which an approval of a
\* facility entry writes the new entry: no rejection and no approval of a
\* department, location or issue-classification entry writes to it.
C7_DirectoryWrittenOnlyByFacilityApproval ==
  [][healthFacility' # healthFacility =>
       \E i \in ReqIds :
          /\ reqs[i].kind = "updateStatus" /\ reqs[i].pc = "facilityCreate"
          /\ reqs[i].status = "approved"
          /\ reqs[i].entry.entry_type = "facility"
          /\ reqs'[i].pc = "entryUpdate"]_vars

C7_Witness ==
  \E i \in ReqIds :
     /\ reqs[i].kind = "updateStatus" /\ reqs[i].pc = "done"
     /\ reqs[i].status = "approved"
     /\ reqs[i].entry.entry_type \in {"department", "location", "issue_classification"}
     /\ pendingEntry[reqs[i].id].status = "approved"

\* C8: when an approval's write of the new Directory Entry fails, the entry's
\* transition to approved (status, timestamp, approver) is still recorded.
C8_TransitionRecordedDespiteWriteFailure ==
  \A i \in ReqIds :
     (/\ reqs[i].kind = "updateStatus" /\ reqs[i].pc = "failed"
      /\ reqs[i].error = "DIRECTORY_WRITE") =>
        /\ pendingEntry[reqs[i].id].status = "approved"
        /\ pendingEntry[reqs[i].id].approved_at = reqs[i].now
        /\ pendingEntry[reqs[i].id].approved_by = reqs[i].approvedBy

AllChannelsFailed(i) ==
  /\ reqs[i].attempts # {}
  /\ IF "confirmation" \in reqs[i].attempts
     THEN reqs[i].emailStatus = << [confirmationSent |-> FALSE, followupSent |-> FALSE,
                                   adminNotificationSent |-> FALSE] >>
     ELSE ~reqs[i].adminSent

\* C10: if every notification channel fails during submit, submit still
\* returns success with the reference code stored on the submission, and the
\* stored confirmation and follow-up flags are both false.
C10_AllChannelsFail ==
  \A i \in ReqIds :
     (CreateDone(i) /\ AllChannelsFailed(i)) =>
        LET row == feedbackSubmission[reqs[i].feedback.id]
        IN /\ reqs[i].result.ok
           /\ reqs[i].result.reference_id = row.reference_id
           /\ row.confirmation_email_sent = FALSE
           /\ row.followup_email_sent = FALSE

C10_Witness ==
  \E i \in ReqIds :
     /\ CreateDone(i) /\ AllChannelsFailed(i)
     /\ reqs[i].attempts = {"confirmation", "followup", "admin"}
     /\ reqs[i].flagsWritten
     /\ reqs[i].result.ok

\* request i is a submission with a contact e-mail that is not anonymous and
\* has started its notification fan-out
FanOutStarted(i) ==
  /\ reqs[i].kind = "create"
  /\ reqs[i].pc \in {"awaitEmails", "flagUpdate", "done"}
  /\ Truthy(reqs[i].feedback.reporter_email) /\ ~reqs[i].feedback.anonymous

\* the three booleans a fan-out reports are the outcomes of its three sends
ReportsOwnOutcomes(i) ==
  reqs[i].emailStatus =
    << [confirmationSent |-> reqs[i].channels["confirmation"] = "sent",
        followupSent |-> reqs[i].channels["followup"] = "sent",
        adminNotificationSent |-> reqs[i].channels["admin"] = "sent"] >>

\* C11: in the fan-out of a non-anonymous submission the confirmation, the
\* survey invite and the admin broadcast are each attempted whatever the other
\* two did; a step that settles one channel leaves the state of the other two
\* alone, and the outcome reported for a channel is that channel's own.
C11_ChannelsIndependent ==
  /\ [](\A i \in ReqIds :
          FanOutStarted(i) =>
            /\ reqs[i].attempts = Channels
            /\ \A c \in Channels : reqs[i].channels[c] \in {"pending", "sent", "failed"}
            /\ reqs[i].pc \in {"flagUpdate", "done"} => ReportsOwnOutcomes(i))
  /\ [][\A i \in ReqIds :
          (FanOutStarted(i) /\ FanOutStarted(i)') =>
             \A c \in Channels :
                reqs[i].channels[c] # "pending" => reqs'[i].channels[c] = reqs[i].channels[c]]_vars

C11_Witness ==
  \E i \in ReqIds :
     /\ FanOutStarted(i) /\ reqs[i].pc = "done"
     /\ reqs[i].channels = [c \in Channels |-> IF c = "confirmation" THEN "failed" ELSE "sent"]
     /\ ReportsOwnOutcomes(i)

\* C12: a submission that has started its fan-out returns to its caller even
\* if the confirmation send never resolves.
C12_SubmitReturnsThoughChannelHangs ==
  \A i \in ReqIds :
     (reqs[i].kind = "create" /\ reqs[i].pc = "awaitEmails") ~> (reqs[i].pc = "responded")

\* the facility candidates request i derived
FacilityCandidatesOf(i) ==
  { c \in DOMAIN reqs[i].candidates : reqs[i].candidates[c].entry_type = "facility" }

\* a row matching candidate cand was found by the query of request i
FoundExisting(i, cand) ==
  \E e \in reqs[i].existingEntries : PendingKey(pendingEntry[e.id]) = PendingKey(cand)

\* request i inserted a pending row for candidate cand
InsertedFor(i, cand) ==
  \E k \in DOMAIN pendingEntry :
     /\ pendingEntry[k].feedback_id = reqs[i].feedback.id
     /\ pendingEntry[k].entry_type = cand.entry_type
     /\ pendingEntry[k].value = cand.value
     /\ pendingEntry[k].state = cand.state /\ pendingEntry[k].lga = cand.lga

\* request i is a finished submission whose directory lookup failed
LookupFailedDone(i) == CreateDone(i) /\ reqs[i].lookupFailed

\* C13 (as stated): when the directory lookup fails the submission is not
\* aborted, the facility candidate is derived as if the Directory had no
\* match, and a pending entry is created for it unless a matching PendingEntry
\* already exists.
C13_LookupFailureFailsOpen ==
  \A i \in ReqIds :
     /\ (reqs[i].kind = "create" /\ reqs[i].pc = "failed") => reqs[i].error = "DB_ERROR"
     /\ LookupFailedDone(i) =>
          /\ reqs[i].result.ok
          /\ FacilityCandidatesOf(i) # {}
          /\ \A c \in FacilityCandidatesOf(i) :
                FoundExisting(i, reqs[i].candidates[c]) \/ InsertedFor(i, reqs[i].candidates[c])

\* C13 (amended): the same, the pending entry being created unless a matching
\* PendingEntry already exists or the Pending-Entry Store query or insert fails.
C13_LookupFailureFailsOpenUnlessStoreFails ==
  \A i \in ReqIds :
     /\ (reqs[i].kind = "create" /\ reqs[i].pc = "failed") => reqs[i].error = "DB_ERROR"
     /\ LookupFailedDone(i) =>
          /\ reqs[i].result.ok
          /\ FacilityCandidatesOf(i) # {}
          /\ \A c \in FacilityCandidatesOf(i) :
                \/ FoundExisting(i, reqs[i].candidates[c])
                \/ InsertedFor(i, reqs[i].candidates[c])
                \/ reqs[i].pendingFailed

C13_Witness ==
  \E i \in ReqIds :
     /\ LookupFailedDone(i) /\ reqs[i].dirHadMatch /\ ~reqs[i].pendingFailed
     /\ \E c \in FacilityCandidatesOf(i) :
           /\ ~FoundExisting(i, reqs[i].candidates[c])
           /\ InsertedFor(i, reqs[i].candidates[c])

\* C14: closed is terminal: no step changes the stored status of a
\* FeedbackSubmission from closed to new, in_review or resolved.
C14_ClosedIsTerminal ==
  [][\A k \in DOMAIN feedbackSubmission :
        feedbackSubmission[k].status = "closed" => feedbackSubmission'[k].status = "closed"]_vars

\* C15: a FeedbackSubmission keeps the reference code and the survey token
\* submit gave it through every later step (status update, notification-flag
\* update, survey submission), and no step removes a FeedbackSubmission.
C15_ReferenceAndTokenImmutable ==
  [][\A k \in DOMAIN feedbackSubmission :
        /\ k \in DOMAIN feedbackSubmission'
        /\ feedbackSubmission'[k].id = feedbackSubmission[k].id
        /\ feedbackSubmission'[k].reference_id = feedbackSubmission[k].reference_id
        /\ feedbackSubmission'[k].survey_token = feedbackSubmission[k].survey_token]_vars

C15_Witness ==
  \E i \in ReqIds : \E k \in DOMAIN feedbackSubmission :
     /\ reqs[i].kind = "update" /\ reqs[i].pc = "done" /\ reqs[i].id = k
     /\ reqs[i].status # Null /\ reqs[i].status # reqs[i].existingFeedback.status
     /\ SurveyExists(k)
     /\ feedbackSubmission[k].reference_id = reqs[i].existingFeedback.reference_id
     /\ feedbackSubmission[k].survey_token = reqs[i].existingFeedback.survey_token

\* request i enters its handler in this step with an id that references no
\* stored record
StartsWithUnknownId(i) ==
  /\ reqs[i].pc = "idle"
  /\ \/ reqs'[i].kind = "updateStatus" /\ reqs'[i].id \notin DOMAIN pendingEntry
     \/ reqs'[i].kind = "update" /\ reqs'[i].id \notin DOMAIN feedbackSubmission

\* request i has ended with the not-found error
NotFound(i) ==
  /\ reqs[i].kind \in {"updateStatus", "update"}
  /\ reqs[i].pc = "failed" /\ reqs[i].error = "NOT_FOUND"

\* C16: resolvePendingEntry and updateSubmissionStatus called with an id that
\* references no stored record end with the not-found error in the step that
\* looks the record up; the Pending-Entry Store, the Feedback Store and the
\* Directory are as before, no notification is attempted, and all that follows
\* for the request is the error response.
C16_UnknownIdIsNotFound ==
  [][\A i \in ReqIds :
        /\ StartsWithUnknownId(i) =>
             /\ NotFound(i)'
             /\ UNCHANGED <<pendingEntry, feedbackSubmission, healthFacility>>
             /\ reqs'[i].kind = "update" => reqs'[i].caseClosedAttempts = 0
        /\ (NotFound(i) /\ reqs'[i] # reqs[i]) =>
             /\ reqs'[i].pc = "responded"
             /\ UNCHANGED <<pendingEntry, feedbackSubmission, healthFacility>>]_vars

C16_Witness ==
  \E i \in ReqIds : \E j \in ReqIds :
     /\ NotFound(i) /\ reqs[i].kind = "updateStatus" /\ pendingEntry # <<>>
     /\ reqs[j].kind = "update" /\ reqs[j].pc = "responded"
     /\ \E s \in InitialStores :
           /\ s.fs # <<>> /\ feedbackSubmission = s.fs
           /\ pendingEntry = s.pe /\ healthFacility = s.hf

\* the survey responses stored for submission fid
ResponsesFor(fid) == { k \in DOMAIN surveyResponse : surveyResponse[k].feedback_id = fid }

UpperAlnum == { UpperChars[d] : d \in DOMAIN UpperChars }

\* FB-<the 8 digits of the date>-<5 characters of A-Z0-9>
WellFormedReference(ref, date) ==
  /\ Len(ref) = 17
  /\ SubSeq(ref, 1, 3) = << "F", "B", "-" >>
  /\ SubSeq(ref, 4, 11) = DateStr(date)
  /\ ref[12] = "-"
  /\ \A k \in 13..17 : ref[k] \in UpperAlnum

\* C18: every reference code generateReferenceId mints is 'FB-', the 8-digit
\* creation date, '-', and exactly 5 characters of A-Z and 0-9, whatever the
\* random number is.
C18_ReferenceFormat ==
  mint.referenceId # Undefined => WellFormedReference(mint.referenceId[1], mint.date[1])

\* the calls that set submission k to closed and have a case-closed dispatch
\* under way or behind them
CaseClosedDispatches(k) ==
  { i \in ReqIds :
      /\ reqs[i].kind = "update" /\ reqs[i].pc \in {"caseClosed", "done"}
      /\ reqs[i].id = k /\ reqs[i].status = "closed"
      /\ (reqs[i].pc = "caseClosed" \/ reqs[i].caseClosedAttempts = 1) }

\* C19: when two calls that both set status closed run concurrently on the same
\* non-anonymous submission whose stored status is not closed, at most one
\* case-closed dispatch is attempted across the two calls, however their reads
\* of the prior status and their writes interleave.
C19_AtMostOneDispatchWhenConcurrent ==
  \A k \in DOMAIN feedbackSubmission : Cardinality(CaseClosedDispatches(k)) <= 1

\* the query of request i found a pending or approved row with cand's key
FoundActive(i, cand) ==
  \E e \in reqs[i].existingEntries :
     /\ e.status \in {"pending", "approved"}
     /\ PendingKey(pendingEntry[e.id]) = PendingKey(cand)

\* request i filtered candidate cand out
Suppressed(i, cand) ==
  \A n \in DOMAIN reqs[i].newEntries : reqs[i].newEntries[n] # cand

\* C20: in a submit whose Pending-Entry Store query and insert succeed, a
\* candidate is suppressed exactly when a pending or approved PendingEntry
\* already matches its dedup key up to letter case; every other candidate is
\* inserted as a row with its value as submitted, linked to the submission.
C20_SuppressedExactlyWhenActiveMatch ==
  \A i \in ReqIds :
     (CreateDone(i) /\ ~reqs[i].pendingFailed) =>
        \A c \in DOMAIN reqs[i].candidates :
           LET cand == reqs[i].candidates[c]
           IN /\ Suppressed(i, cand) <=> FoundActive(i, cand)
              /\ ~FoundActive(i, cand) => InsertedFor(i, cand)

\* request i is a submission that has derived its candidates
CandidatesDerived(i) ==
  /\ reqs[i].kind = "create"
  /\ reqs[i].pc \in {"pendingQuery", "pendingInsert", "sendEmails", "awaitEmails",
                     "flagUpdate", "done"}

\* C21: submit derives a facility candidate only if the payload carries
\* facility name, region and sub-region and the directory lookup, when it
\* answers, reports no case-insensitive match for the triple; if one of the
\* three is missing or a match is reported, no facility candidate is derived.
C21_FacilityCandidateOnlyIfAbsent ==
  \A i \in ReqIds :
     CandidatesDerived(i) =>
        /\ FacilityCandidatesOf(i) # {} =>
             /\ HasTriple(reqs[i].feedback)
             /\ reqs[i].lookupFailed \/ ~reqs[i].dirHadMatch
        /\ (~HasTriple(reqs[i].feedback) \/ (~reqs[i].lookupFailed /\ reqs[i].dirHadMatch))
             => FacilityCandidatesOf(i) = {}
        /\ \A c \in FacilityCandidatesOf(i) :
              /\ reqs[i].candidates[c].value = reqs[i].feedback.facility_name
              /\ reqs[i].candidates[c].state = reqs[i].feedback.facility_state
              /\ reqs[i].candidates[c].lga = reqs[i].feedback.facility_lga

C21_Witness ==
  \E i \in ReqIds : \E j \in ReqIds :
     /\ CreateDone(i) /\ HasTriple(reqs[i].feedback)
     /\ ~reqs[i].lookupFailed /\ reqs[i].dirHadMatch
     /\ FacilityCandidatesOf(i) = {} /\ reqs[i].candidates # <<>>
     /\ reqs[j].kind = "updateStatus" /\ reqs[j].pc = "responded"
     /\ Len(healthFacility) > Len(SeededDirectory)

\* the candidates of entry type t that request i derived
CandidatesOfType(i, t) ==
  { c \in DOMAIN reqs[i].candidates : reqs[i].candidates[c].entry_type = t }

\* v is a member of the vocabulary when letter case is ignored
MemberAnyCase(v, vocabulary) ==
  \E m \in vocabulary : ToLowerCase(m) = ToLowerCase(v)

\* C22 (as stated): submit derives a department (location) candidate only if
\* the submitted value is not a member of the fixed vocabulary of the field,
\* and a value that is a member in whatever letter case yields no candidate.
C22_MemberInAnyCaseYieldsNoCandidate ==
  \A i \in ReqIds :
     CandidatesDerived(i) =>
        /\ MemberAnyCase(reqs[i].feedback.department, predefinedDepartments)
             => CandidatesOfType(i, "department") = {}
        /\ MemberAnyCase(reqs[i].feedback.location, predefinedLocations)
             => CandidatesOfType(i, "location") = {}

\* C22 (amended): submit derives a department (location) candidate only if
\* the submitted value is not, in exactly the vocabulary's spelling, a member
\* of the fixed vocabulary of the field; a value spelled as in the vocabulary
\* yields no candidate, and a derived candidate carries the submitted value.
C22_ExactMemberYieldsNoCandidate ==
  \A i \in ReqIds :
     CandidatesDerived(i) =>
        /\ CandidatesOfType(i, "department") # {} =>
             /\ Truthy(reqs[i].feedback.department)
             /\ reqs[i].feedback.department \notin predefinedDepartments
        /\ reqs[i].feedback.department \in predefinedDepartments
             => CandidatesOfType(i, "department") = {}
        /\ CandidatesOfType(i, "location") # {} =>
             /\ Truthy(reqs[i].feedback.location)
             /\ reqs[i].feedback.location \notin predefinedLocations
        /\ reqs[i].feedback.location \in predefinedLocations
             => CandidatesOfType(i, "location") = {}
        /\ \A c \in CandidatesOfType(i, "department") :
              reqs[i].candidates[c].value = reqs[i].feedback.department
        /\ \A c \in CandidatesOfType(i, "location") :
              reqs[i].candidates[c].value = reqs[i].feedback.location

\* a finished submission whose department is spelled as in the vocabulary and
\* whose location is not a member, after a submission whose location was a
\* member in another letter case had its location queued
C22_Witness ==
  \E i \in ReqIds :
     /\ CreateDone(i)
     /\ reqs[i].feedback.department \in predefinedDepartments
     /\ CandidatesOfType(i, "department") = {}
     /\ CandidatesOfType(i, "location") # {}
     /\ \E k \in DOMAIN pendingEntry :
           /\ pendingEntry[k].entry_type = "location"
           /\ pendingEntry[k].value \notin predefinedLocations
           /\ MemberAnyCase(pendingEntry[k].value, predefinedLocations)

\* the fields of a Pending-Entry row that a resolution never writes
EntryFrame(e) ==
  <<e.entry_type, e.value, e.feedback_id, e.facility_type, e.state, e.lga>>

\* request i writes its decision to the Pending-Entry Store in this step
ResolutionWritten(i) ==
  /\ At(i, "updateStatus", "entryUpdate")
  /\ reqs'[i].pc = "done"

\* C23: resolving with approved sets the entry's status, resolution timestamp
\* and approver; resolving with rejected sets the status and the resolution
\* timestamp and changes no other field of the entry.
C23_ResolutionWritesStatusAndTimestamp ==
  [][ \A i \in ReqIds :
        ResolutionWritten(i) =>
          LET old == pendingEntry[reqs[i].id]
              new == pendingEntry'[reqs[i].id]
          IN /\ new.status = reqs[i].status
             /\ new.approved_at = reqs[i].now
             /\ new.approved_by = IF reqs[i].status = "approved"
                                  THEN reqs[i].approvedBy ELSE old.approved_by
             /\ EntryFrame(new) = EntryFrame(old) ]_vars

\* C24: a PendingEntry's status changes only from pending to approved or from
\* pending to rejected: no step moves an approved or rejected entry to the
\* other resolved status or back to pending.
C24_ResolvedStatusIsFinal ==
  [][ \A k \in DOMAIN pendingEntry :
        pendingEntry'[k].status # pendingEntry[k].status =>
          /\ pendingEntry[k].status = "pending"
          /\ pendingEntry'[k].status \in {"approved", "rejected"} ]_vars

\* submission i starts its admin broadcast in this step
BroadcastStarted(i) ==
  /\ reqs[i].kind = "create" /\ reqs[i].pc = "sendEmails"
  /\ reqs'[i].pc = "awaitEmails"

HasContact(k) ==
  Truthy(feedbackSubmission[k].reporter_email) /\ ~feedbackSubmission[k].anonymous

\* C26: updateSubmissionStatus never attempts a case-closed dispatch for a
\* submission that is anonymous or has no reporter e-mail, whatever the prior
\* and the new status are.
C26_NoCaseClosedWithoutContact ==
  \A i \in ReqIds :
     (reqs[i].kind = "update" /\ reqs[i].pc \in {"write", "caseClosed", "done"}
        /\ ~HasContact(reqs[i].id))
       => /\ reqs[i].pc # "caseClosed"
          /\ reqs[i].caseClosedAttempts = 0
          /\ reqs[i].caseClosedEmailSent = Undefined

\* a finished call that moved an anonymous submission, or one without e-mail
\* address, from another status to closed
C26_Witness ==
  \E i \in ReqIds :
     /\ reqs[i].kind = "update" /\ reqs[i].pc = "done"
     /\ ~HasContact(reqs[i].id)
     /\ reqs[i].status = "closed"
     /\ reqs[i].existingFeedback.status # "closed"
     /\ reqs[i].priorStored # "closed"
     /\ feedbackSubmission[reqs[i].id].status = "closed"
     /\ reqs[i].caseClosedAttempts = 0

\* the Pending-Entry rows linked to submission k
RowsOf(k) == { e \in DOMAIN pendingEntry : pendingEntry[e].feedback_id = k }

\* C27: if the existence query or the batch insert of the Pending-Entry Store
\* fails during submit, none of the submission's candidates is stored as a
\* PendingEntry, the persisted FeedbackSubmission is kept, and the
\* notification fan-out is still attempted.
C27_StoreFailureKeepsSubmission ==
  /\ \A i \in ReqIds :
        (reqs[i].kind = "create" /\ reqs[i].pc # "responded" /\ reqs[i].pc # "failed"
           /\ reqs[i].pendingFailed)
          => /\ RowsOf(reqs[i].feedback.id) = {}
             /\ reqs[i].feedback.id \in DOMAIN feedbackSubmission
             /\ reqs[i].pc \in {"sendEmails", "awaitEmails", "flagUpdate", "done"}
             /\ reqs[i].pc # "sendEmails" => "admin" \in reqs[i].attempts
  /\ \A k \in DOMAIN feedbackSubmission :
        PendingFailedOf(k) => RowsOf(k) = {}

\* a finished submission whose batch insert failed: its candidates were new,
\* none is stored, the submission is, and the sends were attempted
C27_Witness ==
  \E i \in ReqIds :
     /\ CreateDone(i) /\ reqs[i].pendingFailed
     /\ Len(reqs[i].newEntries) > 0
     /\ RowsOf(reqs[i].feedback.id) = {}
     /\ feedbackSubmission[reqs[i].feedback.id].reference_id = reqs[i].feedback.reference_id
     /\ reqs[i].attempts = Channels

\* C28: Directory Entries only accumulate: no step of submit,
\* resolvePendingEntry or updateSubmissionStatus removes or modifies an
\* existing Directory Entry, also when a facility PendingEntry that was
\* approved earlier is rejected.
C28_DirectoryOnlyGrows ==
  [][ \A k \in DOMAIN healthFacility :
        /\ k \in DOMAIN healthFacility'
        /\ healthFacility'[k] = healthFacility[k] ]_vars

\* a finished rejection of a facility entry that was approved and promoted
\* before, with the promoted Directory Entry still in the Directory
C28_Witness ==
  \E i \in ReqIds :
     /\ reqs[i].kind = "updateStatus" /\ reqs[i].pc = "done"
     /\ reqs[i].status = "rejected"
     /\ reqs[i].entry.status = "approved" /\ reqs[i].entry.entry_type = "facility"
     /\ pendingEntry[reqs[i].id].status = "rejected"
     /\ Len(healthFacility) > Len(SeededDirectory)
     /\ \E k \in DOMAIN healthFacility :
           /\ k > Len(SeededDirectory)
           /\ healthFacility[k].facility_name = reqs[i].entry.value
           /\ healthFacility[k].state = reqs[i].entry.state
           /\ healthFacility[k].lga = reqs[i].entry.lga

\* the payload of submission request i names a reporter to write to
ReporterReachable(i) ==
  Truthy(reqs[i].feedback.reporter_email) /\ ~reqs[i].feedback.anonymous

\* C29: for a submission that is anonymous or carries no reporter e-mail,
\* submit attempts only the admin broadcast: no confirmation and no survey
\* invite is attempted, and the confirmation and follow-up flags of the
\* submission are not written by submit.
C29_OnlyAdminBroadcastWithoutContact ==
  /\ \A i \in ReqIds :
        (reqs[i].kind = "create"
           /\ reqs[i].pc \in {"awaitEmails", "flagUpdate", "done"}
           /\ ~ReporterReachable(i))
          => /\ reqs[i].attempts = {"admin"}
             /\ reqs[i].channels["confirmation"] = "none"
             /\ reqs[i].channels["followup"] = "none"
             /\ reqs[i].pc # "flagUpdate"
             /\ ~reqs[i].flagsWritten
             /\ reqs[i].emailStatus = Undefined
  /\ \A k \in DOMAIN feedbackSubmission :
        ~HasContact(k) => /\ ~feedbackSubmission[k].confirmation_email_sent
                          /\ ~feedbackSubmission[k].followup_email_sent

\* a finished anonymous submission that gave an e-mail address: the admin
\* broadcast was sent, nothing else was attempted, the flags are unset
C29_Witness ==
  \E i \in ReqIds :
     /\ CreateDone(i)
     /\ reqs[i].feedback.anonymous /\ Truthy(reqs[i].feedback.reporter_email)
     /\ reqs[i].attempts = {"admin"} /\ reqs[i].adminSent
     /\ ~feedbackSubmission[reqs[i].feedback.id].confirmation_email_sent
     /\ ~feedbackSubmission[reqs[i].feedback.id].followup_email_sent

\* request k is an authenticate, login or refreshToken attempt that reads the
\* account in this step
AttemptReads(k) ==
  /\ ops[k].pc = "idle"
  /\ ops'[k].kind \in {"authenticate", "login", "refreshToken"}

====
